---- MODULE Spec2Model ----
(***************************************************************************)
(* Model of the voxel-world decoding core of mesetools (crate `light`):    *)
(*   - Block::parse_data / get_node / get_name_by_id  (world/map.rs)       *)
(*   - GlobalMapping::get_or_insert_id                (node.rs)            *)
(* Bytes are integers in 0..255, byte strings are sequences of bytes, a    *)
(* Rust String is modelled by its UTF-8 bytes.                             *)
(***************************************************************************)
EXTENDS Integers, Sequences, FiniteSets, TLC

VARIABLES
    desc,          \* how the environment built the stored record (ghost)
    data,          \* the raw bytes handed to Block::parse_data
    result,        \* Result<Block, Error> of light's Block::parse_data
    zstd_ran,      \* whether parse_data reached the zstd decoder (ghost)
    root_result,   \* Result of the root crate's Block::parse_data (src/src)
    query,         \* the last query on the decoded Block and its outcome
    pc,            \* decoder session: "idle" | "decoded" | "queried"
    prior,         \* how many names were interned before the modelled calls
    mapping,       \* GlobalMapping.mapping : the entries <<name, id>> added
                   \* by the modelled calls
    last_id,       \* GlobalMapping.last_id : u16
    overflow_checks, \* build profile: TRUE when integer overflow panics
    gm_pc,         \* "ready" | "panicked" (the overflow check fired)
    call,          \* the last get_or_insert_id call and what it returned
    returned,      \* name -> set of ids ever returned for it (ghost history)
    app_pc,        \* App: "running" or the panic that ended the process
    air_call,      \* the last get_or_insert_id("air") of resumed: kind, ret
    grid,          \* App.grid: the words of the last block_to_grid (None: <<>>)
    translated,    \* <<name, global id>> of every voxel translated (ghost)
    backend,       \* which MapBackend the Map owns: "sqlite3" | "postgres"
    guard,         \* Map.backend's Mutex: the thread holding it, or NoThread
    threads,       \* each thread's position in Map::get_block and its locals
    written,       \* the lines world.mt was written from (ghost)
    text,          \* contents of world.mt (bytes)
    meta,          \* Result<WorldMeta, Error> of WorldMeta::open
    lookup,        \* the last get_str call and what it returned
    startup        \* how main ended or went on

block_vars == <<desc, data, result, zstd_ran, root_result, query, pc>>
gm_vars == <<prior, mapping, last_id, overflow_checks, gm_pc, call, returned>>
app_vars == <<app_pc, air_call, grid, translated>>
map_vars == <<backend, guard, threads>>
meta_vars == <<written, text, meta, lookup, startup>>
vars == <<desc, data, result, zstd_ran, root_result, query, pc,
          prior, mapping, last_id, overflow_checks, gm_pc, call, returned,
          app_pc, air_call, grid, translated,
          backend, guard, threads, written, text, meta, lookup, startup>>

----------------------------------------------------------------------------
(* Program constants                                                       *)

\* Block::VOLUME = 16 * 16 * 16
VOLUME == 4096

\* edge of a block: the bound of the three asserts in node_index
SIDE == 16

\* lowest block version parse_data accepts
MIN_VERSION == 29

\* number of values of a u16 (ids, lengths)
U16 == 65536

----------------------------------------------------------------------------
(* Big-endian integers, as u16::from_be_bytes / u32::from_be_bytes read    *)
(* them                                                                    *)

from_be_bytes(bs) ==
    IF Len(bs) = 2 THEN bs[1] * 256 + bs[2]
    ELSE bs[1] * 16777216 + bs[2] * 65536 + bs[3] * 256 + bs[4]

\* the writer's side of the same fields (used to build stored records)
to_be_bytes16(n) == <<(n \div 256) % 256, n % 256>>
to_be_bytes32(n) == <<(n \div 16777216) % 256, (n \div 65536) % 256,
                      (n \div 256) % 256, n % 256>>

----------------------------------------------------------------------------
(* String::from_utf8: well-formed UTF-8 (Unicode table 3-7)                *)

IsCont(b) == b >= 128 /\ b <= 191

RECURSIVE Utf8Valid(_, _)
Utf8Valid(bs, i) ==
    IF i > Len(bs) THEN TRUE
    ELSE LET b == bs[i]
             has(n) == i + n <= Len(bs)
         IN  IF b < 128 THEN Utf8Valid(bs, i + 1)
             ELSE IF b >= 194 /\ b <= 223
                  THEN has(1) /\ IsCont(bs[i+1]) /\ Utf8Valid(bs, i + 2)
             ELSE IF b = 224
                  THEN has(2) /\ bs[i+1] >= 160 /\ bs[i+1] <= 191
                       /\ IsCont(bs[i+2]) /\ Utf8Valid(bs, i + 3)
             ELSE IF b = 237
                  THEN has(2) /\ bs[i+1] >= 128 /\ bs[i+1] <= 159
                       /\ IsCont(bs[i+2]) /\ Utf8Valid(bs, i + 3)
             ELSE IF b >= 225 /\ b <= 239
                  THEN has(2) /\ IsCont(bs[i+1]) /\ IsCont(bs[i+2])
                       /\ Utf8Valid(bs, i + 3)
             ELSE IF b = 240
                  THEN has(3) /\ bs[i+1] >= 144 /\ bs[i+1] <= 191
                       /\ IsCont(bs[i+2]) /\ IsCont(bs[i+3])
                       /\ Utf8Valid(bs, i + 4)
             ELSE IF b >= 241 /\ b <= 243
                  THEN has(3) /\ IsCont(bs[i+1]) /\ IsCont(bs[i+2])
                       /\ IsCont(bs[i+3]) /\ Utf8Valid(bs, i + 4)
             ELSE IF b = 244
                  THEN has(3) /\ bs[i+1] >= 128 /\ bs[i+1] <= 143
                       /\ IsCont(bs[i+2]) /\ IsCont(bs[i+3])
                       /\ Utf8Valid(bs, i + 4)
             ELSE FALSE

\* (variant) the bytes are taken as they are, unchecked
from_utf8_unchecked_ok(bs) == TRUE

from_utf8_ok(bs) == Utf8Valid(bs, 1)

----------------------------------------------------------------------------
(* The readers of world/map.rs over a Cursor: `pos` is the number of bytes *)
(* already consumed.  A failed read_exact leaves the cursor at the end.    *)

\* (variant) a short read is padded with zeros instead of failing
read_exact_zero_fill(buf, pos, n) ==
    IF pos + n <= Len(buf)
    THEN [ok |-> TRUE, val |-> SubSeq(buf, pos + 1, pos + n), pos |-> pos + n]
    ELSE [ok |-> TRUE,
          val |-> [k \in 1..n |-> IF pos + k <= Len(buf) THEN buf[pos + k] ELSE 0],
          pos |-> Len(buf)]

read_exact(buf, pos, n) ==
    IF pos + n <= Len(buf)
    THEN [ok |-> TRUE, val |-> SubSeq(buf, pos + 1, pos + n), pos |-> pos + n]
    ELSE [ok |-> FALSE, val |-> <<>>, pos |-> Len(buf)]

read_u8(buf, pos) ==
    LET r == read_exact(buf, pos, 1)
    IN  IF r.ok THEN [ok |-> TRUE, val |-> r.val[1], pos |-> r.pos]
        ELSE [ok |-> FALSE, val |-> 0, pos |-> r.pos]

read_u16(buf, pos) ==
    LET r == read_exact(buf, pos, 2)
    IN  IF r.ok THEN [ok |-> TRUE, val |-> from_be_bytes(r.val), pos |-> r.pos]
        ELSE [ok |-> FALSE, val |-> 0, pos |-> r.pos]

read_u32(buf, pos) ==
    LET r == read_exact(buf, pos, 4)
    IN  IF r.ok THEN [ok |-> TRUE, val |-> from_be_bytes(r.val), pos |-> r.pos]
        ELSE [ok |-> FALSE, val |-> 0, pos |-> r.pos]

\* err: "none" | "Io" | "InvalidUtf8" (then val holds the offending bytes)
read_string(buf, pos) ==
    LET len == read_u16(buf, pos)
        bytes == read_exact(buf, len.pos, len.val)
    IN  IF ~len.ok THEN [err |-> "Io", val |-> <<>>, pos |-> len.pos]
        ELSE IF ~bytes.ok THEN [err |-> "Io", val |-> <<>>, pos |-> bytes.pos]
        ELSE IF ~from_utf8_ok(bytes.val)
             THEN [err |-> "InvalidUtf8", val |-> bytes.val, pos |-> bytes.pos]
        ELSE [err |-> "none", val |-> bytes.val, pos |-> bytes.pos]

----------------------------------------------------------------------------
(* zstd::Decoder + read_to_end (RFC 8878), restricted to the frames the    *)
(* stored records of this model use: magic number, a frame header with     *)
(* descriptor 0 (a window descriptor, no content size, no dictionary, no   *)
(* checksum) and a run of Raw or RLE blocks ending in a last block;        *)
(* concatenated frames decode to the concatenation.  Everything else the   *)
(* model feeds the decoder (no bytes, a wrong magic number, a reserved     *)
(* block type, a frame that stops early) is a stream zstd rejects, which   *)
(* read_to_end reports as an io::Error.                                    *)

ZstdMagic == <<40, 181, 47, 253>>

\* Window_Size of a Window_Descriptor byte
WindowSize(wd) ==
    LET windowBase == 2 ^ (10 + wd \div 8)
    IN  windowBase + (windowBase \div 8) * (wd % 8)

\* Block_Maximum_Size: the smaller of Window_Size and 128 KB
BlockMaximumSize(wd) ==
    IF WindowSize(wd) < 131072 THEN WindowSize(wd) ELSE 131072

RECURSIVE ZstdBlocks(_, _, _, _)
RECURSIVE ZstdFrames(_, _, _)

\* blocks of one frame from offset pos; out is what was regenerated so far
ZstdBlocks(s, pos, wd, out) ==
    IF pos + 3 > Len(s) THEN [ok |-> FALSE, out |-> <<>>]
    ELSE LET hdr == s[pos+1] + s[pos+2] * 256 + s[pos+3] * 65536
             last == hdr % 2
             type == (hdr \div 2) % 4
             size == hdr \div 8
             body == IF type = 0 THEN size ELSE 1
             regen == IF type = 0
                      THEN SubSeq(s, pos + 4, pos + 3 + size)
                      ELSE [k \in 1..size |-> s[pos+4]]
         IN  IF type > 1 \/ size > BlockMaximumSize(wd)
                \/ pos + 3 + body > Len(s)
             THEN [ok |-> FALSE, out |-> <<>>]
             ELSE IF last = 1
                  THEN ZstdFrames(s, pos + 3 + body, out \o regen)
                  ELSE ZstdBlocks(s, pos + 3 + body, wd, out \o regen)

\* frames from offset pos; reaching the end of input between frames ends
\* the stream
ZstdFrames(s, pos, out) ==
    IF pos = Len(s) /\ pos > 0 THEN [ok |-> TRUE, out |-> out]
    ELSE IF pos + 6 > Len(s) THEN [ok |-> FALSE, out |-> <<>>]
    ELSE IF SubSeq(s, pos + 1, pos + 4) # ZstdMagic \/ s[pos+5] # 0
         THEN [ok |-> FALSE, out |-> <<>>]
    ELSE ZstdBlocks(s, pos + 6, s[pos+6], out)

\* Decoder::new(cur) then read_to_end(&mut buf): the whole regenerated
\* content, or an io::Error
zstd_decode(s) == ZstdFrames(s, 0, <<>>)

\* the compressor's side: one frame holding `body` in one Raw last block
ZstdWindowDescriptor == 40
zstd_frame(body) ==
    LET hdr == Len(body) * 8 + 1
    IN  ZstdMagic \o <<0, ZstdWindowDescriptor>>
        \o <<hdr % 256, (hdr \div 256) % 256, (hdr \div 65536) % 256>>
        \o body

----------------------------------------------------------------------------
(* Block::parse_data (light/src/world/map.rs)                              *)

Ok(block) == [kind |-> "Ok", block |-> block]
ErrIo == [kind |-> "Io"]
ErrUnsupportedVersion(v) == [kind |-> "UnsupportedVersion", version |-> v]
ErrInvalidUtf8(bytes) == [kind |-> "InvalidUtf8", bytes |-> bytes]

EmptyMap == [k \in {} |-> <<>>]

\* (variant) a repeated key keeps the value it has
insert_keeps_first(m, k, v) == m @@ (k :> v)

\* HashMap::insert: a repeated key replaces the value
insert(m, k, v) == (k :> v) @@ m

\* (variant) the loop stops at the first entry it cannot read and keeps
\* what it has
RECURSIVE read_mappings_lenient(_, _, _, _)
read_mappings_lenient(buf, pos, count, mappings) ==
    IF count = 0 THEN [err |-> "none", pos |-> pos, mappings |-> mappings,
                       bytes |-> <<>>]
    ELSE LET id == read_u16(buf, pos)
             name == read_string(buf, id.pos)
         IN  IF ~id.ok \/ name.err # "none"
             THEN [err |-> "none", pos |-> pos, mappings |-> mappings,
                   bytes |-> <<>>]
             ELSE read_mappings_lenient(buf, name.pos, count - 1,
                                        insert(mappings, id.val, name.val))

\* for _ in 0..mappings_count { read_u16?; read_string?; insert }
RECURSIVE read_mappings(_, _, _, _)
read_mappings(buf, pos, count, mappings) ==
    IF count = 0 THEN [err |-> "none", pos |-> pos, mappings |-> mappings,
                       bytes |-> <<>>]
    ELSE LET id == read_u16(buf, pos)
             name == read_string(buf, id.pos)
         IN  IF ~id.ok
             THEN [err |-> "Io", pos |-> id.pos, mappings |-> mappings,
                   bytes |-> <<>>]
             ELSE IF name.err # "none"
             THEN [err |-> name.err, pos |-> name.pos, mappings |-> mappings,
                   bytes |-> name.val]
             ELSE read_mappings(buf, name.pos, count - 1,
                                insert(mappings, id.val, name.val))

\* (variant) the two width bytes are validated against the fixed layout
parse_body_widths_checked(buf) ==
    LET flags == read_u8(buf, 0)
        lighting_complete == read_u16(buf, flags.pos)
        timestamp == read_u32(buf, lighting_complete.pos)
        mapping_version == read_u8(buf, timestamp.pos)
        mappings_count == read_u16(buf, mapping_version.pos)
        table == read_mappings(buf, mappings_count.pos, mappings_count.val,
                               EmptyMap)
        content_width == read_u8(buf, table.pos)
        params_width == read_u8(buf, content_width.pos)
        node_data == read_exact(buf, params_width.pos, VOLUME * 4)
    IN  IF ~flags.ok \/ ~lighting_complete.ok \/ ~timestamp.ok
           \/ ~mapping_version.ok \/ ~mappings_count.ok
        THEN ErrIo
        ELSE IF table.err = "Io" THEN ErrIo
        ELSE IF table.err = "InvalidUtf8" THEN ErrInvalidUtf8(table.bytes)
        ELSE IF ~content_width.ok \/ ~params_width.ok THEN ErrIo
        ELSE IF content_width.val # 2 \/ params_width.val # 2 THEN ErrIo
        ELSE IF ~node_data.ok THEN ErrIo
        ELSE Ok([node_data |-> node_data.val, mappings |-> table.mappings])

\* the part of parse_data that follows decompression: `buf` is the
\* decompressed body
parse_body(buf) ==
    LET flags == read_u8(buf, 0)
        lighting_complete == read_u16(buf, flags.pos)
        timestamp == read_u32(buf, lighting_complete.pos)
        mapping_version == read_u8(buf, timestamp.pos)
        mappings_count == read_u16(buf, mapping_version.pos)
        table == read_mappings(buf, mappings_count.pos, mappings_count.val,
                               EmptyMap)
        \* the two width reads carry no `?`: a failure is dropped
        content_width == read_u8(buf, table.pos)
        params_width == read_u8(buf, content_width.pos)
        node_data == read_exact(buf, params_width.pos, VOLUME * 4)
    IN  IF ~flags.ok \/ ~lighting_complete.ok \/ ~timestamp.ok
           \/ ~mapping_version.ok \/ ~mappings_count.ok
        THEN ErrIo
        ELSE IF table.err = "Io" THEN ErrIo
        ELSE IF table.err = "InvalidUtf8" THEN ErrInvalidUtf8(table.bytes)
        ELSE IF ~node_data.ok THEN ErrIo
        ELSE Ok([node_data |-> node_data.val, mappings |-> table.mappings])

\* (variant) version 29 itself is refused
unsupported_inclusive(version) == version <= MIN_VERSION

\* if version < 29
unsupported(version) == version < MIN_VERSION

\* the whole of parse_data: the result and whether the decoder was run
parse_data(d) ==
    LET version == read_u8(d, 0)
        decoded == zstd_decode(SubSeq(d, version.pos + 1, Len(d)))
    IN  IF ~version.ok THEN [result |-> ErrIo, zstd |-> FALSE]
        ELSE IF unsupported(version.val)
        THEN [result |-> ErrUnsupportedVersion(version.val), zstd |-> FALSE]
        ELSE IF ~decoded.ok THEN [result |-> ErrIo, zstd |-> TRUE]
        ELSE [result |-> parse_body(decoded.out), zstd |-> TRUE]

\* Block::parse_data of the root crate (src/world/map.rs): the version
\* check alone, then a Block with no data
root_parse_data(d) ==
    LET version == read_u8(d, 0)
    IN  IF ~version.ok THEN ErrIo
        ELSE IF unsupported(version.val)
        THEN ErrUnsupportedVersion(version.val)
        ELSE Ok([data |-> <<>>])

----------------------------------------------------------------------------
(* Block queries                                                           *)

\* the one element of a singleton: the({e(v) : v \in {d}}) stands for
\* `let v = d; e(v)`, d being computed once
the(S) == CHOOSE v \in S : TRUE

\* (variant) the three asserts are missing
node_index_no_assert(pos) ==
    [ok |-> TRUE, val |-> pos.z * 16 * 16 + pos.y * 16 + pos.x]

\* node_index: three asserts, then z*16*16 + y*16 + x
node_index(pos) ==
    IF pos.x >= 0 /\ pos.x < SIDE /\ pos.y >= 0 /\ pos.y < SIDE
       /\ pos.z >= 0 /\ pos.z < SIDE
    THEN [ok |-> TRUE, val |-> pos.z * 16 * 16 + pos.y * 16 + pos.x]
    ELSE [ok |-> FALSE, val |-> 0]

\* node_data[i] of a Vec<u8> (0-based); `at` lists the offsets it indexes
\* (variants) the high byte taken from the low byte's place; param2 taken
\* from param1's plane
id_hi_at_low_byte(i) == 2 * i + 1
param2_at_param1_plane(i) == VOLUME * 2 + i

id_hi_at(i) == 2 * i
id_lo_at(i) == 2 * i + 1
param1_at(i) == VOLUME * 2 + i
param2_at(i) == VOLUME * 3 + i

\* get_node: a Node, or the panic of a failed assert / index out of range;
\* reads is the set of node_data offsets the call indexed
get_node(block, pos) ==
    LET ni == node_index(pos)
        i == ni.val
        at == {id_hi_at(i), id_lo_at(i), param1_at(i), param2_at(i)}
        byte(k) == block.node_data[k + 1]
    IN  IF ~ni.ok THEN [kind |-> "panic", reads |-> {}]
        ELSE IF \E k \in at : k < 0 \/ k >= Len(block.node_data)
        THEN [kind |-> "panic",
              reads |-> {k \in at : k >= 0 /\ k < Len(block.node_data)}]
        ELSE [kind |-> "Node",
              id |-> ((byte(id_hi_at(i)) * 256) % U16) + byte(id_lo_at(i)),
              param1 |-> byte(param1_at(i)),
              param2 |-> byte(param2_at(i)),
              reads |-> at]

None == [some |-> FALSE]
Some(v) == [some |-> TRUE, val |-> v]

\* (variant) id 0 is special-cased as having no name
get_name_by_id_zero_absent(block, id) ==
    IF id # 0 /\ id \in DOMAIN block.mappings
    THEN Some(block.mappings[id]) ELSE None

\* get_name_by_id: self.mappings.get(&id)
get_name_by_id(block, id) ==
    IF id \in DOMAIN block.mappings THEN Some(block.mappings[id]) ELSE None

----------------------------------------------------------------------------
(* Names used by the stored records and the interning calls              *)

\* names, as UTF-8 bytes: "air", "é", "b" and two byte strings that are not
\* UTF-8 (a lone 0xFF, a lead byte with no continuation)
NameAir == <<97, 105, 114>>
NameEAcute == <<195, 169>>
NameB == <<98>>
BadNameFF == <<255>>
BadNameLead == <<195>>

----------------------------------------------------------------------------
(* GlobalMapping (light/src/node.rs)                                       *)

\* names a caller interns besides "air": MaxNames one-letter names
MaxNames == 2

\* the k-th of 65536 distinct names: "air", then three-letter names
NameOf(k) ==
    IF k = 0 THEN NameAir
    ELSE <<48 + (k \div 4096), 48 + ((k \div 64) % 64), 48 + (k % 64)>>

\* the k with NameOf(k) = name (none or one)
IndexOf(name) ==
    IF name = NameAir THEN {0}
    ELSE IF Len(name) # 3 THEN {}
    ELSE {k \in {(name[1] - 48) * 4096 + (name[2] - 48) * 64 + (name[3] - 48)} :
             k \in 1..(U16 - 1) /\ NameOf(k) = name}

\* A HashMap<String, u16> holds entries <<name, id>>, one per name.  The
\* entries of a long session are not all written out: the map is
\* [base |-> n, added |-> S], standing for the entries <<NameOf(k), k>>,
\* k < n, made by the first n calls, and the entries S made afterwards.
NoEntries == {}
HashMap(n, added) == [base |-> n, added |-> added]

\* HashMap::get(name): the entries under this name (none or one)
entries_of(m, name) ==
    {p \in m.added : p[1] = name}
    \cup {<<name, k>> : k \in {j \in IndexOf(name) : j < m.base}}

\* HashMap::insert(name, id) for a name the map does not hold
insert_entry(m, name, id) ==
    [m EXCEPT !.added = {p \in @ : p[1] # name} \cup {<<name, id>>}]

\* (variant) the counter starts at 1
GlobalMapping_new_from_one == [mapping |-> NoEntries, last_id |-> 1]

\* GlobalMapping::new()
GlobalMapping_new == [mapping |-> NoEntries, last_id |-> 0]

\* (variant) the lookup is missing: every call assigns a fresh id
get_or_insert_id_no_lookup(m, last, name, checks) ==
    IF last + 1 >= U16 /\ checks
    THEN [mapping |-> insert_entry(m, name, last), last_id |-> last,
          kind |-> "panic", ret |-> last]
    ELSE [mapping |-> insert_entry(m, name, last),
          last_id |-> (last + 1) % U16, kind |-> "new", ret |-> last]

\* get_or_insert_id on the fields (m, last): the fields afterwards and the
\* id returned.  `self.last_id += 1` on a u16 at 65535 panics when the
\* build checks overflow (the entry is already inserted) and wraps to 0
\* when it does not.
get_or_insert_id(m, last, name, checks) ==
    LET found == entries_of(m, name)
    IN  IF found # {}
        THEN [mapping |-> m, last_id |-> last, kind |-> "hit",
              ret |-> (CHOOSE p \in found : TRUE)[2]]
        ELSE IF last + 1 >= U16 /\ checks
        THEN [mapping |-> insert_entry(m, name, last), last_id |-> last,
              kind |-> "panic", ret |-> last]
        ELSE [mapping |-> insert_entry(m, name, last),
              last_id |-> (last + 1) % U16, kind |-> "new", ret |-> last]

\* the table after NameOf(0), ..., NameOf(n-1) were interned in this order
\* by a fresh GlobalMapping
Interned(n) == {<<NameOf(k), k>> : k \in 0..(n - 1)}

\* A session is modelled from its start, or from the point where it has
\* interned all but two of the 65536 ids; the entries made up to that point
\* are not repeated in every state: the HashMap is PriorEntries(prior)
\* together with the entries the modelled calls added.
NearFull == U16 - 2
NearFullEntries == Interned(NearFull)
PriorEntries(n) == IF n = 0 THEN NoEntries ELSE NearFullEntries

\* all entries of HashMap(n, added), written out
HashMapOf(n, added) ==
    (PriorEntries(n)
        \ UNION {{<<p[1], k>> : k \in IndexOf(p[1])} : p \in added})
    \cup added

\* names the modelled calls pass: "air", one-letter names, and the first
\* of the three-letter names
CallNames ==
    {NameAir, NameOf(1)} \cup {<<97 + k>> : k \in 1..MaxNames}

\* names passed to a session picked up near the end of the id space: two
\* interned long ago and three new ones, enough to pass the last id
NearFullCallNames == {NameAir, NameOf(1), <<98>>, <<99>>, NameEAcute}

CallNamesOf(n) == IF n = 0 THEN CallNames ELSE NearFullCallNames

----------------------------------------------------------------------------
(* Stored records: what a backend returns for one block.  A record is      *)
(* described by `desc` and laid out as parse_data reads it: a version      *)
(* byte, then a zstd stream whose content is the header fields, the        *)
(* mapping table, the two width bytes and the node bytes.                  *)

\* longest mapping table of a stored record
MaxEntries == 2

\* node-byte patterns 0..MaxSeed
MaxSeed == 1

Entry(id, name) == [id |-> id, name |-> name]

\* mapping entries the tables are built from: id 5 occurs under two names
EntryPool ==
    {Entry(0, NameAir), Entry(5, NameEAcute), Entry(5, NameB),
     Entry(7, BadNameFF), Entry(65535, BadNameLead)}

RECURSIVE SeqsUpTo(_, _)
SeqsUpTo(S, n) ==
    IF n = 0 THEN {<<>>}
    ELSE LET shorter == SeqsUpTo(S, n - 1)
         IN  shorter \cup {Append(t, e) : t \in {u \in shorter : Len(u) = n - 1},
                                          e \in S}

Tables == SeqsUpTo(EntryPool, MaxEntries)

\* byte j (0-based) of the node section with pattern `seed`
NodeByte(seed, j) ==
    (j * (2 * seed + 3) + (j \div 256) * 5 + (j \div VOLUME) * 17 + seed * 11)
        % 256

NodeBytes(seed, n) == [j \in 1..n |-> NodeByte(seed, j - 1)]

\* byte j of a node section whose voxel i holds the id ids[i mod Len(ids)]
\* (each row of 16 shifted by one), the params following pattern `seed`
PaletteId(ids, i) == ids[((i + (i \div SIDE)) % Len(ids)) + 1]

PaletteByte(ids, seed, j) ==
    IF j < 2 * VOLUME
    THEN to_be_bytes16(PaletteId(ids, j \div 2))[(j % 2) + 1]
    ELSE NodeByte(seed, j)

PaletteBytes(ids, seed, n) == [j \in 1..n |-> PaletteByte(ids, seed, j - 1)]

EntryBytes(e) ==
    to_be_bytes16(e.id) \o to_be_bytes16(Len(e.name)) \o e.name

RECURSIVE TableBytes(_)
TableBytes(t) ==
    IF t = <<>> THEN <<>> ELSE EntryBytes(Head(t)) \o TableBytes(Tail(t))

\* everything of the body that precedes the node bytes
Prefix(d) ==
    <<d.flags>> \o to_be_bytes16(d.lighting) \o to_be_bytes32(d.timestamp)
    \o <<d.mapping_version>> \o to_be_bytes16(Len(d.entries))
    \o TableBytes(d.entries) \o <<d.content_width, d.params_width>>

PrefixLen(t) == 8 + 2 + Len(TableBytes(t)) + 2
FullLen(t) == PrefixLen(t) + VOLUME * 4

\* the first d.keep bytes of the body
Body(d) ==
    LET pre == Prefix(d)
    IN  IF d.keep <= Len(pre) THEN SubSeq(pre, 1, d.keep)
        ELSE IF d.palette = <<>>
        THEN pre \o NodeBytes(d.seed, d.keep - Len(pre))
        ELSE pre \o PaletteBytes(d.palette, d.seed, d.keep - Len(pre))

\* the bytes of the stored record
Encode(d) ==
    IF d.kind = "record" THEN <<d.version>> \o zstd_frame(Body(d))
    ELSE d.stream

Record(v, t, seed, keep) ==
    [kind |-> "record", version |-> v, flags |-> 3, lighting |-> 65535,
     timestamp |-> 305419896, mapping_version |-> 0, entries |-> t,
     content_width |-> 2, params_width |-> 2, seed |-> seed, keep |-> keep,
     palette |-> <<>>, stream |-> <<>>]

Raw(bytes) ==
    [kind |-> "raw", version |-> 0, flags |-> 0, lighting |-> 0,
     timestamp |-> 0, mapping_version |-> 0, entries |-> <<>>,
     content_width |-> 0, params_width |-> 0, seed |-> 0, keep |-> 0,
     palette |-> <<>>, stream |-> bytes]

Versions == {0, 28, 29, 30, 255}

\* complete records of the lowest supported version: every table under
\* pattern 0, and every pattern under a table listing ids 0 and 5
CompleteRecords ==
    {Record(MIN_VERSION, t, 0, FullLen(t)) : t \in Tables}
    \cup {Record(MIN_VERSION, <<Entry(0, NameAir), Entry(5, NameB)>>, seed,
                 FullLen(<<Entry(0, NameAir), Entry(5, NameB)>>)) :
            seed \in 0..MaxSeed}

\* complete bodies under every version, old ones included
VersionedRecords ==
    {Record(v, t, 0, FullLen(t)) :
        v \in Versions, t \in {<<>>, <<Entry(0, NameAir)>>, <<Entry(7, BadNameFF)>>}}

\* offsets a body is cut at: everywhere up to the first node bytes, then
\* inside the node section, the last one dropping the final byte alone
Cuts(t) ==
    0..(PrefixLen(t) + 2)
    \cup {PrefixLen(t) + k * VOLUME + r : k \in 0..3, r \in {0, 1}}
    \cup {FullLen(t) - 1}

TruncatedRecords ==
    UNION {{Record(MIN_VERSION, t, 0, keep) : keep \in Cuts(t)} : t \in Tables}

\* byte strings that are not a record: nothing at all, a version byte and
\* nothing else, a stream with a wrong magic number, a frame header with no
\* block, a frame with a reserved block type, a block shorter than declared
RawStreams ==
    {<<>>}
    \cup {<<v>> \o s : v \in Versions,
                       s \in {<<>>, <<1, 2, 3, 4, 5, 6, 7, 8, 9>>,
                              ZstdMagic \o <<0, ZstdWindowDescriptor>>,
                              ZstdMagic \o <<0, ZstdWindowDescriptor, 7, 0, 0>>,
                              ZstdMagic \o <<0, ZstdWindowDescriptor, 33, 0, 0, 1>>}}

\* tables that list id 5 twice and id 0 once
RepeatedIdTables ==
    {<<Entry(5, NameB), Entry(0, NameAir), Entry(5, NameEAcute)>>,
     <<Entry(5, NameEAcute), Entry(5, NameB), Entry(0, NameAir)>>}

RepeatedIdRecords ==
    {Record(MIN_VERSION, t, 0, FullLen(t)) : t \in RepeatedIdTables}

\* values of the fields parse_data reads and drops: the four header fields
\* each at the value Record gives it or at another one, with the widths as
\* Record gives them or at 0 and 255; and the header fields as Record gives
\* them with every pair of widths
OtherWidths == {0, 1, 2, 4, 255}
DiscardedValues ==
    [flags : {3, 255}, lighting : {65535, 0}, timestamp : {305419896, 0},
     mapping_version : {0, 255},
     widths : {<<2, 2>>, <<0, 255>>}]
    \cup [flags : {3}, lighting : {65535}, timestamp : {305419896},
          mapping_version : {0}, widths : OtherWidths \X OtherWidths]

\* record d with its discarded fields set to f
WithDiscarded(d, f) ==
    [d EXCEPT !.flags = f.flags, !.lighting = f.lighting,
              !.timestamp = f.timestamp,
              !.mapping_version = f.mapping_version,
              !.content_width = f.widths[1], !.params_width = f.widths[2]]

\* one complete record under every choice of the discarded fields, and
\* the same record cut inside its node bytes under two of them
VariedRecords ==
    {WithDiscarded(Record(MIN_VERSION, <<Entry(0, NameAir), Entry(5, NameB)>>,
                          0, keep), f) :
        keep \in {FullLen(<<Entry(0, NameAir), Entry(5, NameB)>>)},
        f \in DiscardedValues}
    \cup {[Record(MIN_VERSION, <<Entry(0, NameAir)>>, 0,
                  PrefixLen(<<Entry(0, NameAir)>>) + 1)
           EXCEPT !.content_width = w, !.params_width = 255 - w] :
            w \in {0, 255}}

Descs ==
    CompleteRecords \cup VersionedRecords \cup TruncatedRecords
    \cup RepeatedIdRecords \cup VariedRecords
    \cup {Raw(s) : s \in RawStreams}

----------------------------------------------------------------------------
(* The decoding session: one stored record is decoded, then the Block (if  *)
(* any) is queried.                                                        *)

NoQuery == [op |-> "none"]

\* before parse_data has returned there is no Result
NoResult == [kind |-> "none"]

\* coordinates a caller may pass (an i32 each), inside and outside [0, 16)
Coords == {-1, 0, 15, 16}
Positions == [x : Coords, y : Coords, z : Coords]

\* ids a caller may look up
QueryIds == {0, 1, 5, 7, 65535}

NoCall == [name |-> <<>>, kind |-> "none", ret |-> 0]

\* threads that call Map::get_block on the one Map
NumThreads == 2
Threads == 1..NumThreads
NoThread == 0

\* a thread outside get_block
IdleThread ==
    [pc |-> "idle", pos |-> <<>>, fetched |-> NoResult, result |-> NoResult,
     fetches |-> 0, decodes |-> 0, driver_failed |-> FALSE]

\* main has not run
NotStarted == [at |-> "not started"]

\* an empty world.mt
NothingWritten == [lines |-> <<>>, newline |-> FALSE]

BlockInit ==
    /\ desc = Raw(<<>>)
    /\ data = <<>>
    /\ result = NoResult
    /\ zstd_ran = FALSE
    /\ root_result = NoResult
    /\ query = NoQuery
    /\ pc = "idle"
    /\ prior = 0
    /\ mapping = NoEntries
    /\ last_id = 0
    /\ overflow_checks = FALSE
    /\ gm_pc = "ready"
    /\ call = NoCall
    /\ returned = EmptyMap
    /\ app_pc = "running"
    /\ air_call = NoCall
    /\ grid = <<>>
    /\ translated = {}
    /\ backend = "sqlite3"
    /\ guard = NoThread
    /\ threads = [t \in Threads |-> IdleThread]
    /\ written = NothingWritten
    /\ text = <<>>
    /\ meta = NoResult
    /\ lookup = NoQuery
    /\ startup = NotStarted

\* Map::get_block hands the fetched bytes to Block::parse_data
ParseData ==
    /\ pc = "idle"
    /\ \E d \in Descs :
          \E bytes \in {Encode(d)} :
             \E r \in {parse_data(bytes)} :
                /\ desc' = d
                /\ data' = bytes
                /\ result' = r.result
                /\ zstd_ran' = r.zstd
                /\ root_result' = root_parse_data(bytes)
    /\ pc' = "decoded"
    /\ query' = NoQuery
    /\ UNCHANGED gm_vars
    /\ UNCHANGED app_vars
    /\ UNCHANGED map_vars
    /\ UNCHANGED meta_vars

\* block.get_node(pos)
GetNode ==
    /\ pc = "decoded"
    /\ result.kind = "Ok"
    /\ \E pos \in Positions :
          query' = [op |-> "get_node", pos |-> pos,
                    out |-> get_node(result.block, pos)]
    /\ pc' = "queried"
    /\ UNCHANGED <<desc, data, result, zstd_ran, root_result>>
    /\ UNCHANGED gm_vars
    /\ UNCHANGED app_vars
    /\ UNCHANGED map_vars
    /\ UNCHANGED meta_vars

\* block.get_name_by_id(id)
GetNameById ==
    /\ pc = "decoded"
    /\ result.kind = "Ok"
    /\ \E id \in QueryIds :
          query' = [op |-> "get_name_by_id", id |-> id,
                    out |-> get_name_by_id(result.block, id)]
    /\ pc' = "queried"
    /\ UNCHANGED <<desc, data, result, zstd_ran, root_result>>
    /\ UNCHANGED gm_vars
    /\ UNCHANGED app_vars
    /\ UNCHANGED map_vars
    /\ UNCHANGED meta_vars

\* the caller is done with the Node / name it was given
DropQuery ==
    /\ pc = "queried"
    /\ query' = NoQuery
    /\ pc' = "decoded"
    /\ UNCHANGED <<desc, data, result, zstd_ran, root_result>>
    /\ UNCHANGED gm_vars
    /\ UNCHANGED app_vars
    /\ UNCHANGED map_vars
    /\ UNCHANGED meta_vars

BlockNext == ParseData \/ GetNode \/ GetNameById \/ DropQuery

SpecBlock == BlockInit /\ [][BlockNext]_vars

----------------------------------------------------------------------------
(* The interning session: get_or_insert_id is called name after name     *)

\* a session starts fresh (GlobalMapping::new) or is picked up two ids
\* before the u16 counter is exhausted
MappingInit ==
    /\ desc = Raw(<<>>)
    /\ data = <<>>
    /\ result = NoResult
    /\ zstd_ran = FALSE
    /\ root_result = NoResult
    /\ query = NoQuery
    /\ pc = "idle"
    /\ overflow_checks \in BOOLEAN
    /\ prior \in {0, NearFull}
    /\ mapping = GlobalMapping_new.mapping
    /\ last_id = IF prior = 0 THEN GlobalMapping_new.last_id ELSE prior
    /\ returned = [nm \in {c \in CallNamesOf(prior) :
                             entries_of(HashMap(prior, NoEntries), c) # {}}
                      |-> {p[2] : p \in entries_of(HashMap(prior, NoEntries),
                                                   nm)}]
    /\ gm_pc = "ready"
    /\ call = NoCall
    /\ app_pc = "running"
    /\ air_call = NoCall
    /\ grid = <<>>
    /\ translated = {}
    /\ backend = "sqlite3"
    /\ guard = NoThread
    /\ threads = [t \in Threads |-> IdleThread]
    /\ written = NothingWritten
    /\ text = <<>>
    /\ meta = NoResult
    /\ lookup = NoQuery
    /\ startup = NotStarted

\* global_mapping.get_or_insert_id(name)
GetOrInsertId ==
    /\ gm_pc = "ready"
    /\ \E name \in CallNamesOf(prior), m \in {HashMap(prior, mapping)} :
          \E r \in {get_or_insert_id(m, last_id, name, overflow_checks)} :
             /\ mapping' = r.mapping.added
             /\ last_id' = r.last_id
             /\ call' = [name |-> name, kind |-> r.kind, ret |-> r.ret]
             /\ gm_pc' = IF r.kind = "panic" THEN "panicked" ELSE "ready"
             /\ returned' =
                   IF r.kind = "panic" THEN returned
                   ELSE insert(returned, name,
                               (IF name \in DOMAIN returned
                                THEN returned[name] ELSE {}) \cup {r.ret})
    /\ UNCHANGED <<prior, overflow_checks>>
    /\ UNCHANGED block_vars
    /\ UNCHANGED app_vars
    /\ UNCHANGED map_vars
    /\ UNCHANGED meta_vars

MappingNext == GetOrInsertId

SpecMapping == MappingInit /\ [][MappingNext]_vars

----------------------------------------------------------------------------
(* The application (light/src/main.rs): resumed and block_to_grid          *)

\* a | b on unsigned integers
RECURSIVE bitor(_, _)
bitor(a, b) ==
    IF a = 0 THEN b
    ELSE IF b = 0 THEN a
    ELSE (IF a % 2 = 1 \/ b % 2 = 1 THEN 1 ELSE 0)
            + (2 * bitor(a \div 2, b \div 2))

\* A u32 is kept as its two 16-bit halves.
\* v as u32, for a u8 or u16 value v
as_u32(v) == [hi |-> 0, lo |-> v]

\* w << n on a u32, n <= 16: the bits shifted past bit 31 are lost, the
\* top n bits of the low half move into the high half
shl(w, n) ==
    [hi |-> ((w.hi % (2 ^ (16 - n))) * (2 ^ n)) + (w.lo \div (2 ^ (16 - n))),
     lo |-> (w.lo % (2 ^ (16 - n))) * (2 ^ n)]

\* a | b on u32 values
or32(a, b) == [hi |-> bitor(a.hi, b.hi), lo |-> bitor(a.lo, b.lo)]

\* what the backend's get_block_data returned
OkData(bytes) == [kind |-> "Ok", data |-> bytes]
ErrSqlite(e) == [kind |-> "Sqlite", source |-> e]

\* (variant) the fetched bytes are decoded whatever the fetch returned
get_block_decode_always(fetched) ==
    [result |-> parse_data(IF fetched.kind = "Ok" THEN fetched.data
                           ELSE <<>>).result,
     decoded |-> TRUE]

\* Map::get_block, given what get_block_data returned: `?` hands an Err
\* back as it is, an Ok goes through Block::parse_data; `decoded` tells
\* whether the decoder was invoked
get_block(fetched) ==
    IF fetched.kind # "Ok" THEN [result |-> fetched, decoded |-> FALSE]
    ELSE [result |-> parse_data(fetched.data).result, decoded |-> TRUE]

\* (variant) the three values are or-ed into separate bit fields
grid_word_fields(global_id, param1, param2) ==
    or32(or32(or32(as_u32(0), shl(as_u32(global_id), 16)),
              shl(as_u32(param1), 8)),
         as_u32(param2))

\* the word block_to_grid builds: value |= id << 16; |= param1; |= param2
grid_word(global_id, param1, param2) ==
    or32(or32(or32(as_u32(0), shl(as_u32(global_id), 16)),
              as_u32(param1)),
         as_u32(param2))

\* the loop state of block_to_grid before its first iteration
GridStart(m, last) ==
    [pc |-> "running", mapping |-> m, last_id |-> last,
     data |-> [i \in 1..(16 * 16 * 16) |-> as_u32(0)], seen |-> {}]

\* one iteration of the innermost loop of block_to_grid
grid_voxel(block, st, x, y, z, checks) ==
    the({IF node.kind # "Node" THEN [st EXCEPT !.pc = "panicked: node_index"]
         ELSE the({
            IF ~name.some
            THEN [st EXCEPT !.pc = "panicked: get_name_by_id unwrap"]
            ELSE the({
               IF r.kind = "panic"
               THEN [st EXCEPT !.pc = "panicked: overflow",
                               !.mapping = r.mapping]
               ELSE [pc |-> "running",
                     mapping |-> r.mapping,
                     last_id |-> r.last_id,
                     data |-> [st.data EXCEPT
                                 ![(z * 16 * 16) + (y * 16) + x + 1] =
                                    grid_word(r.ret, node.param1, node.param2)],
                     seen |-> st.seen \cup {<<name.val, r.ret>>}] :
               r \in {get_or_insert_id(st.mapping, st.last_id, name.val,
                                       checks)}}) :
            name \in {get_name_by_id(block, node.id)}}) :
         node \in {get_node(block, [x |-> x, y |-> y, z |-> z])}})

RECURSIVE grid_for_x(_, _, _, _, _, _)
grid_for_x(block, st, x, y, z, checks) ==
    IF x = SIDE \/ st.pc # "running" THEN st
    ELSE grid_for_x(block, grid_voxel(block, st, x, y, z, checks),
                    x + 1, y, z, checks)

RECURSIVE grid_for_y(_, _, _, _, _)
grid_for_y(block, st, y, z, checks) ==
    IF y = SIDE \/ st.pc # "running" THEN st
    ELSE grid_for_y(block, grid_for_x(block, st, 0, y, z, checks),
                    y + 1, z, checks)

RECURSIVE grid_for_z(_, _, _, _)
grid_for_z(block, st, z, checks) ==
    IF z = SIDE \/ st.pc # "running" THEN st
    ELSE grid_for_z(block, grid_for_y(block, st, 0, z, checks), z + 1, checks)

\* block_to_grid(block, global_mapping): the grid words, the GlobalMapping
\* afterwards, and the <<name, global id>> of the voxels translated
block_to_grid(block, m, last, checks) ==
    grid_for_z(block, GridStart(m, last), 0, checks)

\* what resumed leaves behind when it ends at `at` ("running": it returned)
Handled(at, air, m, last, block, words, seen) ==
    [pc |-> at, air_call |-> air, mapping |-> m, last_id |-> last,
     block |-> block, grid |-> words, seen |-> seen]

\* ApplicationHandler::resumed, from the interning of "air" on: the
\* assertion, the fetch and decode of the block at (0, 2, 0), block_to_grid
resumed(m, last, fetched, checks) ==
    LET a == get_or_insert_id(m, last, NameAir, checks)
        air == [name |-> NameAir, kind |-> a.kind, ret |-> a.ret]
    IN  IF a.kind = "panic"
        THEN Handled("panicked: overflow", air, a.mapping, a.last_id,
                     NoResult, <<>>, {})
        ELSE IF a.ret # 0
        THEN Handled("panicked: assert_eq", air, a.mapping, a.last_id,
                     NoResult, <<>>, {})
        ELSE
        the({IF b.kind # "Ok"
             THEN Handled("panicked: get_block unwrap", air, a.mapping,
                          a.last_id, b, <<>>, {})
             ELSE the({Handled(g.pc, air, g.mapping, g.last_id, b,
                               IF g.pc = "running" THEN g.data ELSE <<>>,
                               g.seen) :
                       g \in {block_to_grid(b.block, a.mapping, a.last_id,
                                            checks)}}) :
             b \in {get_block(fetched).result}})

NameC == <<99>>

\* a complete record whose voxels hold the ids of `ids` in turn
Voxels(t, ids, seed) ==
    [Record(MIN_VERSION, t, seed, FullLen(t)) EXCEPT !.palette = ids]

\* records stored at (0, 2, 0): two that list the same names under
\* exchanged local ids, one with other names, one whose voxels hold an id
\* that the table does not list, one of a version too old, one with an
\* empty body, one cut after a name that is not UTF-8
AppDescs ==
    {Voxels(<<Entry(0, NameAir), Entry(5, NameB)>>, <<0, 5>>, 0),
     Voxels(<<Entry(0, NameB), Entry(5, NameAir)>>, <<5, 0>>, 1),
     Voxels(<<Entry(1, NameEAcute), Entry(2, NameC)>>, <<1, 2>>, 0),
     Voxels(<<Entry(5, NameB)>>, <<5, 0>>, 0),
     Record(MIN_VERSION - 1, <<>>, 0, FullLen(<<>>)),
     Record(MIN_VERSION, <<Entry(0, NameAir)>>, 0, 0),
     Record(MIN_VERSION, <<Entry(7, BadNameFF)>>, 0, 16)}

\* App::new: a fresh GlobalMapping, no grid; or a session picked up two ids
\* before the u16 counter is exhausted
AppInit ==
    /\ desc = Raw(<<>>)
    /\ data = <<>>
    /\ result = NoResult
    /\ zstd_ran = FALSE
    /\ root_result = NoResult
    /\ query = NoQuery
    /\ pc = "idle"
    /\ overflow_checks \in BOOLEAN
    /\ prior \in {0, NearFull}
    /\ mapping = GlobalMapping_new.mapping
    /\ last_id = IF prior = 0 THEN GlobalMapping_new.last_id ELSE prior
    /\ returned = EmptyMap
    /\ gm_pc = "ready"
    /\ call = NoCall
    /\ app_pc = "running"
    /\ air_call = NoCall
    /\ grid = <<>>
    /\ translated = {}
    /\ backend = "sqlite3"
    /\ guard = NoThread
    /\ threads = [t \in Threads |-> IdleThread]
    /\ written = NothingWritten
    /\ text = <<>>
    /\ meta = NoResult
    /\ lookup = NoQuery
    /\ startup = NotStarted

\* the event loop calls resumed; a panic in the handler ends the process
Resumed ==
    /\ app_pc = "running"
    /\ \E d \in AppDescs, found \in BOOLEAN :
          \E fetched \in {IF found THEN OkData(Encode(d))
                          ELSE ErrSqlite("QueryReturnedNoRows")} :
             \E r \in {resumed(HashMap(prior, mapping), last_id, fetched,
                               overflow_checks)} :
                /\ desc' = IF found THEN d ELSE Raw(<<>>)
                /\ data' = IF found THEN fetched.data ELSE <<>>
                /\ result' = r.block
                /\ app_pc' = r.pc
                /\ air_call' = r.air_call
                /\ mapping' = r.mapping.added
                /\ last_id' = r.last_id
                /\ grid' = IF r.pc = "running" THEN r.grid ELSE grid
                /\ translated' = translated \cup r.seen
    /\ UNCHANGED <<zstd_ran, root_result, query, pc>>
    /\ UNCHANGED <<prior, overflow_checks, gm_pc, call, returned>>
    /\ UNCHANGED map_vars
    /\ UNCHANGED meta_vars

AppNext == Resumed

SpecApp == AppInit /\ [][AppNext]_vars

----------------------------------------------------------------------------
(* Map::get_block called from several threads (world/map.rs), over the     *)
(* SQLite backend (light/src/world/sqlite.rs) or the PostgreSQL backend    *)
(* (src/world/postgres.rs)                                                 *)

ErrPostgres(e) == [kind |-> "Postgres", source |-> e]
ErrBlockNotFound == [kind |-> "BlockNotFound"]

\* positions asked for (IVec3 as <<x, y, z>>): one with a complete record,
\* one whose record is of a version too old, one with no row
PosStored == <<0, 2, 0>>
PosOld == <<1, 2, 0>>
PosEmpty == <<0, 0, 0>>
MapPositions == {PosStored, PosOld, PosEmpty}

\* the table `blocks`: the data column of the row at each stored position
Rows ==
    (PosStored :> Encode(Voxels(<<Entry(0, NameAir), Entry(5, NameB)>>,
                                <<0, 5>>, 0)))
    @@ (PosOld :> <<MIN_VERSION - 1>>)

\* SqliteBackend::get_block_data: conn.query_one(SQL, [x, y, z], row.get(0))?
\* query_one fails with QueryReturnedNoRows when the SELECT finds no row;
\* `?` wraps every rusqlite error, that one included, as Error::Sqlite.
\* `fails`: the driver failed for another reason.
sqlite_get_block_data(rows, pos, fails) ==
    IF fails THEN ErrSqlite("SqliteFailure")
    ELSE IF pos \notin DOMAIN rows THEN ErrSqlite("QueryReturnedNoRows")
    ELSE OkData(rows[pos])

\* PostgresBackend::get_block_data: client.query_one(SQL, [x, y, z])?
\* query_one fails with a row-count error unless exactly one row comes
\* back; `?` wraps every postgres error as Error::Postgres.
postgres_get_block_data(rows, pos, fails) ==
    IF fails THEN ErrPostgres("Db")
    ELSE IF pos \notin DOMAIN rows THEN ErrPostgres("RowCount")
    ELSE OkData(rows[pos])

\* the call through Box<dyn MapBackend>
get_block_data(b, rows, pos, fails) ==
    IF b = "sqlite3" THEN sqlite_get_block_data(rows, pos, fails)
    ELSE postgres_get_block_data(rows, pos, fails)

\* (variant) lock() returns whoever holds the mutex
lock_free_always(g) == g = g

\* Mutex::lock returns a guard once no thread holds the mutex
lock_free(g) == g = NoThread

\* (variant) the guard outlives the statement
drop_guard_kept(g) == g

\* the MutexGuard is dropped: the mutex is free again
drop_guard(g) == NoThread

\* Map::new(backend): nobody holds the mutex, no thread is in get_block
MapInit ==
    /\ desc = Raw(<<>>)
    /\ data = <<>>
    /\ result = NoResult
    /\ zstd_ran = FALSE
    /\ root_result = NoResult
    /\ query = NoQuery
    /\ pc = "idle"
    /\ prior = 0
    /\ mapping = NoEntries
    /\ last_id = 0
    /\ overflow_checks = FALSE
    /\ gm_pc = "ready"
    /\ call = NoCall
    /\ returned = EmptyMap
    /\ app_pc = "running"
    /\ air_call = NoCall
    /\ grid = <<>>
    /\ translated = {}
    /\ backend \in {"sqlite3", "postgres"}
    /\ guard = NoThread
    /\ threads = [t \in Threads |-> IdleThread]
    /\ written = NothingWritten
    /\ text = <<>>
    /\ meta = NoResult
    /\ lookup = NoQuery
    /\ startup = NotStarted

\* a thread calls map.get_block(pos) and arrives at self.backend.lock()
Call(t) ==
    /\ threads[t].pc \in {"idle", "returned"}
    /\ \E pos \in MapPositions :
          threads' = [threads EXCEPT ![t] =
                        [IdleThread EXCEPT !.pc = "lock", !.pos = pos]]
    /\ UNCHANGED <<backend, guard>>
    /\ UNCHANGED <<block_vars, gm_vars, app_vars, meta_vars>>

\* lock().unwrap() returns the guard and get_block_data(pos) is entered
Lock(t) ==
    /\ threads[t].pc = "lock"
    /\ lock_free(guard)
    /\ guard' = t
    /\ threads' = [threads EXCEPT ![t].pc = "fetching",
                                  ![t].fetches = @ + 1]
    /\ UNCHANGED backend
    /\ UNCHANGED <<block_vars, gm_vars, app_vars, meta_vars>>

\* get_block_data returns; the guard, a temporary of the `let` statement,
\* is still alive
FetchReturn(t) ==
    /\ threads[t].pc = "fetching"
    /\ \E fails \in BOOLEAN :
          threads' = [threads EXCEPT
                        ![t].pc = "fetched",
                        ![t].driver_failed = fails,
                        ![t].fetched = get_block_data(backend, Rows,
                                                      threads[t].pos, fails)]
    /\ UNCHANGED <<backend, guard>>
    /\ UNCHANGED <<block_vars, gm_vars, app_vars, meta_vars>>

\* the statement ends (or `?` leaves the function): the guard is dropped
Unlock(t) ==
    /\ threads[t].pc = "fetched"
    /\ guard' = drop_guard(guard)
    /\ threads' = [threads EXCEPT ![t].pc = "unlocked"]
    /\ UNCHANGED backend
    /\ UNCHANGED <<block_vars, gm_vars, app_vars, meta_vars>>

\* the Err is returned, or Block::parse_data runs and its result is
\* returned
Finish(t) ==
    /\ threads[t].pc = "unlocked"
    /\ \E r \in {get_block(threads[t].fetched)} :
          threads' = [threads EXCEPT
                        ![t].pc = "returned",
                        ![t].result = r.result,
                        ![t].decodes = @ + (IF r.decoded THEN 1 ELSE 0)]
    /\ UNCHANGED <<backend, guard>>
    /\ UNCHANGED <<block_vars, gm_vars, app_vars, meta_vars>>

MapNext ==
    \E t \in Threads :
       Call(t) \/ Lock(t) \/ FetchReturn(t) \/ Unlock(t) \/ Finish(t)

SpecMap == MapInit /\ [][MapNext]_vars

----------------------------------------------------------------------------
(* WorldMeta (light/src/world/meta.rs) and the backend selection of main   *)
(* (light/src/main.rs, src/main.rs)                                        *)

LF == 10
CR == 13

\* char::is_whitespace on the ASCII range: tab, LF, VT, FF, CR, space
is_whitespace(b) == b \in {9, 10, 11, 12, 13, 32}

\* (variant) only leading whitespace is removed
RECURSIVE trim_start_only(_)
trim_start_only(s) ==
    IF s # <<>> /\ is_whitespace(Head(s)) THEN trim_start_only(Tail(s)) ELSE s

RECURSIVE trim_start(_)
trim_start(s) ==
    IF s # <<>> /\ is_whitespace(Head(s)) THEN trim_start(Tail(s)) ELSE s

RECURSIVE trim_end(_)
trim_end(s) ==
    IF s # <<>> /\ is_whitespace(s[Len(s)])
    THEN trim_end(SubSeq(s, 1, Len(s) - 1)) ELSE s

\* str::trim
trim(s) == trim_end(trim_start(s))

\* index of the first LF of s at or after i, Len(s) + 1 if there is none
RECURSIVE find_lf(_, _)
find_lf(s, i) ==
    IF i > Len(s) \/ s[i] = LF THEN i ELSE find_lf(s, i + 1)

\* str::lines: the text is cut after every LF; a piece loses its LF and
\* then a CR that stood before the LF; no line follows a final LF
RECURSIVE lines(_)
lines(s) ==
    IF s = <<>> THEN <<>>
    ELSE LET k == find_lf(s, 1)
             piece == SubSeq(s, 1, k - 1)
             line == IF k <= Len(s) /\ piece # <<>> /\ piece[Len(piece)] = CR
                     THEN SubSeq(piece, 1, Len(piece) - 1) ELSE piece
         IN  <<line>> \o lines(SubSeq(s, k + 1, Len(s)))

\* positions of "=" in s
EqualsAt(s) == {i \in 1..Len(s) : s[i] = 61}

Min(S) == CHOOSE i \in S : \A j \in S : i <= j
Max(S) == CHOOSE i \in S : \A j \in S : i >= j

split_at(s, i) == Some(<<SubSeq(s, 1, i - 1), SubSeq(s, i + 1, Len(s))>>)

\* (variant) the split is made at the last "="
rsplit_once(s) ==
    IF EqualsAt(s) = {} THEN None ELSE split_at(s, Max(EqualsAt(s)))

\* line.split_once("="): the text before and after the first "="
split_once(s) ==
    IF EqualsAt(s) = {} THEN None ELSE split_at(s, Min(EqualsAt(s)))

ErrUnexpectedFormat(line) == [kind |-> "UnexpectedFormat", line |-> line]
OkMeta(values) == [kind |-> "Ok", values |-> values]

\* the `for line in data.lines()` loop of WorldMeta::open over the lines
\* ls, `values` being the map so far
RECURSIVE open_lines(_, _)
open_lines(ls, values) ==
    IF ls = <<>> THEN OkMeta(values)
    ELSE LET line == trim(Head(ls))
         IN  IF line = <<>> THEN open_lines(Tail(ls), values)
             ELSE LET kv == split_once(line)
                  IN  IF ~kv.some THEN ErrUnexpectedFormat(line)
                      ELSE open_lines(Tail(ls),
                                      insert(values, trim(kv.val[1]),
                                             trim(kv.val[2])))

\* WorldMeta::open, given what read_to_string returned
open(read) ==
    IF read.kind # "Ok" THEN read
    ELSE open_lines(lines(read.data), EmptyMap)

\* WorldMeta::get_str
get_str(world_meta, key) ==
    IF key \in DOMAIN world_meta.values THEN Some(world_meta.values[key])
    ELSE None

KeyBackend == <<98, 97, 99, 107, 101, 110, 100>>
ValSqlite3 == <<115, 113, 108, 105, 116, 101, 51>>
ValPostgres == <<112, 111, 115, 116, 103, 114, 101, 115>>

\* how main ends, or that the event loop is running
Running(map) == [at |-> "running", map |-> map, error |-> NoResult]
Exited == [at |-> "exit(1)", map |-> "none", error |-> NoResult]
Panicked(msg) == [at |-> msg, map |-> "none", error |-> NoResult]
ReturnedErr(e) == [at |-> "returned Err", map |-> "none", error |-> e]

\* `match backend` of main
select_backend(value, sqlite_opens) ==
    IF value = ValSqlite3
    THEN IF sqlite_opens THEN Running("sqlite3")
         ELSE ReturnedErr(ErrSqlite("CannotOpen"))
    ELSE IF value = ValPostgres THEN Panicked("panicked: not implemented")
    ELSE Exited

\* main up to the start of the event loop: `arg` says whether a world
\* path was given, `read` is what read_to_string returns for world.mt,
\* `sqlite_opens` and `event_loop` whether Connection::open and
\* EventLoop::new succeed
main(arg, read, sqlite_opens, event_loop) ==
    IF ~arg THEN Exited
    ELSE LET world_meta == the({open(r) : r \in {read}})
         IN  IF world_meta.kind # "Ok" THEN ReturnedErr(world_meta)
             ELSE LET found == get_str(world_meta, KeyBackend)
                  IN  IF ~found.some
                      THEN Panicked("panicked: unwrap on None")
                      ELSE LET map == select_backend(found.val,
                                                     sqlite_opens)
                           IN  IF map.at # "running" THEN map
                               ELSE IF ~event_loop
                               THEN ReturnedErr([kind |-> "EventLoop"])
                               ELSE map

\* A line of world.mt as it is written: `raw` is its text without the
\* line ending, `body` the text without the surrounding whitespace.
EqLine(lead, key, ws1, ws2, value, trail) ==
    [raw |-> lead \o key \o ws1 \o <<61>> \o ws2 \o value \o trail,
     body |-> key \o ws1 \o <<61>> \o ws2 \o value,
     blank |-> FALSE, eq |-> TRUE, key |-> key, value |-> value]
NoEqLine(lead, body, trail) ==
    [raw |-> lead \o body \o trail, body |-> body,
     blank |-> FALSE, eq |-> FALSE, key |-> <<>>, value |-> <<>>]
BlankLine(ws) ==
    [raw |-> ws, body |-> <<>>,
     blank |-> TRUE, eq |-> FALSE, key |-> <<>>, value |-> <<>>]

MetaLines ==
    { EqLine(<<>>, KeyBackend, <<32>>, <<32>>, ValSqlite3, <<>>),
      EqLine(<<>>, KeyBackend, <<>>, <<>>, ValPostgres, <<>>),
      \* " backend\t=x=y \r"
      EqLine(<<32>>, KeyBackend, <<9>>, <<>>, <<120, 61, 121>>, <<32, CR>>),
      EqLine(<<>>, <<120>>, <<>>, <<>>, ValSqlite3, <<>>),
      NoEqLine(<<>>, <<120>>, <<>>),
      \* " x y\t"
      NoEqLine(<<32>>, <<120, 32, 121>>, <<9>>),
      BlankLine(<<>>),
      BlankLine(<<32, 9>>),
      \* "= x" and "backend ="
      EqLine(<<>>, <<>>, <<>>, <<32>>, <<120>>, <<>>),
      EqLine(<<>>, KeyBackend, <<32>>, <<>>, <<>>, <<>>) }

MaxLines == 3

\* every line but the last is followed by LF, the last one if `newline`
RECURSIVE Join(_, _)
Join(ls, newline) ==
    IF ls = <<>> THEN <<>>
    ELSE Head(ls).raw
         \o (IF Len(ls) > 1 \/ newline THEN <<LF>> ELSE <<>>)
         \o Join(Tail(ls), newline)

MetaKeys == {KeyBackend, <<120>>, <<121>>, <<>>}

MetaInit ==
    /\ desc = Raw(<<>>)
    /\ data = <<>>
    /\ result = NoResult
    /\ zstd_ran = FALSE
    /\ root_result = NoResult
    /\ query = NoQuery
    /\ pc = "idle"
    /\ prior = 0
    /\ mapping = NoEntries
    /\ last_id = 0
    /\ overflow_checks = FALSE
    /\ gm_pc = "ready"
    /\ call = NoCall
    /\ returned = EmptyMap
    /\ app_pc = "running"
    /\ air_call = NoCall
    /\ grid = <<>>
    /\ translated = {}
    /\ backend = "sqlite3"
    /\ guard = NoThread
    /\ threads = [t \in Threads |-> IdleThread]
    /\ \E n \in 0..MaxLines, newline \in BOOLEAN :
        \E ls \in [1..n -> MetaLines] :
           /\ n = 0 => ~newline
           /\ written = [lines |-> ls, newline |-> newline]
           /\ text = Join(ls, newline)
    /\ meta = NoResult
    /\ lookup = NoQuery
    /\ startup = NotStarted

\* WorldMeta::open(world_meta_path)
Open ==
    /\ meta = NoResult
    /\ startup = NotStarted
    /\ \E readable \in BOOLEAN :
           meta' = open(IF readable THEN OkData(text) ELSE ErrIo)
    /\ UNCHANGED <<written, text, lookup, startup>>
    /\ UNCHANGED <<block_vars, gm_vars, app_vars, map_vars>>

\* world_meta.get_str(key)
GetStr ==
    /\ meta.kind = "Ok"
    /\ \E key \in MetaKeys :
           lookup' = [op |-> "get_str", key |-> key,
                      out |-> get_str(meta, key)]
    /\ UNCHANGED <<written, text, meta, startup>>
    /\ UNCHANGED <<block_vars, gm_vars, app_vars, map_vars>>

\* the program is started on the world
Main ==
    /\ meta = NoResult
    /\ startup = NotStarted
    /\ \E arg \in BOOLEAN, readable \in BOOLEAN,
          sqlite_opens \in BOOLEAN, event_loop \in BOOLEAN :
           startup' = [at |-> "started", arg |-> arg,
                       readable |-> readable,
                       sqlite_opens |-> sqlite_opens,
                       event_loop |-> event_loop,
                       out |-> main(arg,
                                    IF readable THEN OkData(text) ELSE ErrIo,
                                    sqlite_opens, event_loop)]
    /\ UNCHANGED <<written, text, meta, lookup>>
    /\ UNCHANGED <<block_vars, gm_vars, app_vars, map_vars>>

MetaNext == Open \/ GetStr \/ Main

SpecMeta == MetaInit /\ [][MetaNext]_vars

----------------------------------------------------------------------------
(* What a stored record encodes, read off its description                  *)

AllPositions == [x : 0..(SIDE - 1), y : 0..(SIDE - 1), z : 0..(SIDE - 1)]

InRange(pos) ==
    /\ pos.x >= 0 /\ pos.x < SIDE
    /\ pos.y >= 0 /\ pos.y < SIDE
    /\ pos.z >= 0 /\ pos.z < SIDE

FlatIndex(pos) == pos.z * 256 + pos.y * 16 + pos.x

TableIds(t) == {t[k].id : k \in 1..Len(t)}

\* the name of the last entry of t with this id
LastName(t, id) ==
    LET k == CHOOSE k \in 1..Len(t) :
                 /\ t[k].id = id
                 /\ \A j \in (k + 1)..Len(t) : t[j].id # id
    IN  t[k].name

NamesValid(t) == \A k \in 1..Len(t) : Utf8Valid(t[k].name, 1)

\* offset in the body of the first byte after entry k of the table
EntryEnd(t, k) == 8 + 2 + Len(TableBytes(SubSeq(t, 1, k)))

\* a record laid out as the format describes, nothing missing
WellFormed(d) ==
    /\ d.kind = "record"
    /\ d.version >= MIN_VERSION
    /\ NamesValid(d.entries)
    /\ d.keep = FullLen(d.entries)

Decoded == pc # "idle"

AskedNode == pc = "queried" /\ query.op = "get_node"
AskedName == pc = "queried" /\ query.op = "get_name_by_id"

----------------------------------------------------------------------------
(* Claims about Block::parse_data and the Block queries, under SpecBlock   *)

C2_Params ==
    (Decoded /\ result.kind = "Ok") =>
        /\ desc.kind = "record" /\ desc.keep = FullLen(desc.entries)
        /\ pc = "decoded" =>
              \A pos \in AllPositions :
                 LET n == get_node(result.block, pos)
                     i == FlatIndex(pos)
                 IN  /\ n.kind = "Node"
                     /\ n.param1 = NodeByte(desc.seed, 2 * VOLUME + i)
                     /\ n.param2 = NodeByte(desc.seed, 3 * VOLUME + i)
                     /\ {2 * VOLUME + i, 3 * VOLUME + i} \subseteq n.reads
        /\ (AskedNode /\ InRange(query.pos)) =>
              /\ query.out.kind = "Node"
              /\ query.out.param1 =
                    NodeByte(desc.seed, 2 * VOLUME + FlatIndex(query.pos))
              /\ query.out.param2 =
                    NodeByte(desc.seed, 3 * VOLUME + FlatIndex(query.pos))

\* the far corner of a block was read and its two params differ
C2_Witness ==
    /\ AskedNode /\ result.kind = "Ok"
    /\ query.pos = [x |-> 15, y |-> 15, z |-> 15]
    /\ query.out.kind = "Node"
    /\ query.out.param1 # query.out.param2

\* C3: for every decoded Block and every 16-bit id, get_name_by_id returns
\* the name the mapping table encodes for the id (that of its last entry)
\* when the table lists the id, and absence otherwise; id 0 is no exception.
C3_Names ==
    (Decoded /\ result.kind = "Ok") =>
        /\ desc.kind = "record"
        /\ pc = "decoded" =>
              \A id \in 0..(U16 - 1) :
                 get_name_by_id(result.block, id) =
                    IF id \in TableIds(desc.entries)
                    THEN Some(LastName(desc.entries, id)) ELSE None
        /\ AskedName =>
              query.out = IF query.id \in TableIds(desc.entries)
                          THEN Some(LastName(desc.entries, query.id))
                          ELSE None

\* id 0 was looked up in a Block whose non-empty table does not list it
C3_Witness ==
    /\ AskedName /\ query.id = 0 /\ ~query.out.some
    /\ desc.entries # <<>>

\* C3, second case: id 0 was looked up in a Block whose table lists it
C3_WitnessListed ==
    /\ AskedName /\ query.id = 0 /\ query.out.some
    /\ query.out.val = NameAir

\* C4: for a non-empty input with first byte v, v < 29 gives
\* UnsupportedVersion(v) whatever follows and the decoder is not run;
\* v >= 29 never gives UnsupportedVersion.  Both crates' parse_data.
C4_Version ==
    (Decoded /\ data # <<>>) =>
        /\ data[1] < 29 =>
              /\ result = ErrUnsupportedVersion(data[1])
              /\ ~zstd_ran
              /\ root_result = ErrUnsupportedVersion(data[1])
        /\ data[1] >= 29 =>
              /\ result.kind # "UnsupportedVersion"
              /\ root_result.kind # "UnsupportedVersion"

\* version 28 in front of bytes that are no compressed stream
C4_Witness ==
    /\ Decoded /\ desc.kind = "raw" /\ Len(data) > 1
    /\ data[1] = 28
    /\ result.kind = "UnsupportedVersion"

\* C4, boundary: version 29 itself is decoded
C4_WitnessAccepted ==
    /\ Decoded /\ data # <<>> /\ data[1] = 29 /\ result.kind = "Ok"

\* C5: an empty input, or an otherwise well-formed record whose body stops
\* anywhere before its last node byte, gives an Io error and no Block.
C5_ShortRead ==
    (Decoded /\ (data = <<>>
                 \/ (/\ desc.kind = "record"
                     /\ desc.version >= MIN_VERSION
                     /\ NamesValid(desc.entries)
                     /\ desc.keep < FullLen(desc.entries)))) =>
        /\ result = ErrIo
        /\ query.op = "none"

\* only the final node byte is missing
C5_Witness ==
    /\ Decoded /\ desc.kind = "record"
    /\ desc.keep = FullLen(desc.entries) - 1
    /\ desc.entries # <<>> /\ NamesValid(desc.entries)
    /\ result = ErrIo

\* C5, the width bytes: the body stops right after the mapping table, so
\* the read of the content-width byte fails
C5_WitnessWidth ==
    /\ Decoded /\ desc.kind = "record"
    /\ desc.keep = PrefixLen(desc.entries) - 2
    /\ NamesValid(desc.entries)
    /\ result = ErrIo

\* the first entry of the table whose name is not UTF-8
FirstBad(t) ==
    CHOOSE k \in 1..Len(t) :
        /\ ~Utf8Valid(t[k].name, 1)
        /\ \A j \in 1..(k - 1) : Utf8Valid(t[j].name, 1)

\* C6: when a name of the table, fully present in the body, is not valid
\* UTF-8, parse_data fails with InvalidUtf8 at the first such entry and
\* returns no Block, whatever follows that entry.
C6_InvalidUtf8 ==
    (/\ Decoded /\ desc.kind = "record" /\ desc.version >= MIN_VERSION
     /\ ~NamesValid(desc.entries)
     /\ desc.keep >= EntryEnd(desc.entries, FirstBad(desc.entries))) =>
        /\ result = ErrInvalidUtf8(desc.entries[FirstBad(desc.entries)].name)
        /\ query.op = "none"

\* the bad name is followed by another bad one with different bytes, and
\* the error carries the first
C6_Witness ==
    /\ Decoded /\ desc.kind = "record"
    /\ Len(desc.entries) >= 2
    /\ desc.entries[1].name = BadNameLead
    /\ desc.entries[2].name = BadNameFF
    /\ result = ErrInvalidUtf8(BadNameLead)

\* C6, truncation after the entry: the body ends right behind the bad name
C6_WitnessCut ==
    /\ Decoded /\ desc.kind = "record" /\ desc.entries # <<>>
    /\ ~NamesValid(desc.entries)
    /\ desc.keep = EntryEnd(desc.entries, FirstBad(desc.entries))
    /\ result.kind = "InvalidUtf8"

C8_FailFast ==
    (Decoded /\ result.kind = "Ok") =>
        /\ pc = "decoded" =>
              \A pos \in Positions :
                 ~InRange(pos) =>
                    get_node(result.block, pos) =
                       [kind |-> "panic", reads |-> {}]
        /\ (AskedNode /\ ~InRange(query.pos)) =>
              query.out = [kind |-> "panic", reads |-> {}]

\* x = 16 alone is out of range: the flat index would be another voxel's
C8_Witness ==
    /\ AskedNode
    /\ query.pos = [x |-> 16, y |-> 0, z |-> 0]
    /\ query.out.kind = "panic"

\* C8, negative side
C8_WitnessNegative ==
    /\ AskedNode
    /\ query.pos = [x |-> 0, y |-> -1, z |-> 15]
    /\ query.out.kind = "panic"

\* entries of table t that carry this id, and the ids listed twice or more
EntriesWith(t, id) == {k \in 1..Len(t) : t[k].id = id}
RepeatedIds(t) == {id \in TableIds(t) : Cardinality(EntriesWith(t, id)) > 1}

\* C21: when the mapping table of a complete record lists an id more than
\* once, decoding succeeds, get_name_by_id of that id is the name of the
\* last entry that carries it, and every id listed once keeps the name of
\* its entry.
C21_RepeatedIdLastWins ==
    (Decoded /\ WellFormed(desc) /\ RepeatedIds(desc.entries) # {}) =>
        /\ result.kind = "Ok"
        /\ \A id \in TableIds(desc.entries) :
              get_name_by_id(result.block, id) =
                 Some(desc.entries[Max(EntriesWith(desc.entries, id))].name)
        /\ (AskedName /\ query.id \in TableIds(desc.entries)) =>
              query.out =
                 Some(desc.entries[Max(EntriesWith(desc.entries,
                                                   query.id))].name)

\* id 5 is listed as "b", then id 0, then id 5 again as "é": the lookup of
\* 5 gives "é"
C21_Witness ==
    /\ AskedName /\ query.id = 5
    /\ Len(desc.entries) = 3
    /\ desc.entries[1] = Entry(5, NameB)
    /\ desc.entries[3] = Entry(5, NameEAcute)
    /\ query.out = Some(NameEAcute)

\* C21, the other ids: in a table that lists id 5 twice, id 0 has its name
C21_WitnessOther ==
    /\ AskedName /\ query.id = 0
    /\ 5 \in RepeatedIds(desc.entries)
    /\ query.out = Some(NameAir)

\* the stored record that differs from d in the discarded fields only, all
\* of them at the values Record gives them; what it decodes to
Baseline(d) ==
    [Record(d.version, d.entries, d.seed, d.keep) EXCEPT !.palette = d.palette]
BaselineResult == parse_data(Encode(Baseline(desc))).result
VariedFields == desc.kind = "record" /\ desc # Baseline(desc)

\* C22: a record and the record that differs from it in the flags byte, the
\* lighting field, the timestamp, the mapping version and the two width
\* bytes decode alike: both fail or both give a Block, get_node and
\* get_name_by_id return the same for the two Blocks, and a complete record
\* decodes whatever its width bytes are.
C22_DiscardedFieldsIgnored ==
    (Decoded /\ VariedFields) =>
        \A other \in {BaselineResult} :
           /\ result.kind = other.kind
           /\ WellFormed(desc) => result.kind = "Ok"
           /\ (result.kind = "Ok" /\ pc = "decoded") =>
                 /\ \A pos \in AllPositions :
                       get_node(result.block, pos) = get_node(other.block, pos)
                 /\ \A id \in QueryIds :
                       get_name_by_id(result.block, id)
                          = get_name_by_id(other.block, id)
           /\ AskedNode => query.out = get_node(other.block, query.pos)
           /\ AskedName => query.out = get_name_by_id(other.block, query.id)

\* a complete record whose six discarded fields all differ from the
\* baseline was decoded and a node was read from it
C22_Witness ==
    /\ AskedNode /\ InRange(query.pos) /\ VariedFields
    /\ desc.flags = 255 /\ desc.lighting = 0 /\ desc.timestamp = 0
    /\ desc.mapping_version = 255
    /\ desc.content_width = 0 /\ desc.params_width = 255
    /\ query.out = get_node(BaselineResult.block, query.pos)

\* C22, the widths alone: width bytes 1 and 4, a name was looked up
C22_WitnessWidths ==
    /\ AskedName /\ query.out.some
    /\ desc.content_width = 1 /\ desc.params_width = 4

----------------------------------------------------------------------------
(* Claims about GlobalMapping, under SpecMapping                           *)

\* C9: once get_or_insert_id has returned id k for a name, every later
\* call with that name returns k, whatever was interned in between.
C9_StableId ==
    /\ \A nm \in DOMAIN returned : Cardinality(returned[nm]) = 1
    /\ call.kind \in {"hit", "new"} =>
          /\ <<call.name, call.ret>> \in HashMapOf(prior, mapping)
          /\ returned[call.name] = {call.ret}

\* "air" was interned first, other names after it, and a later call for
\* "air" found its id again
C9_Witness ==
    /\ call.kind = "hit" /\ call.name = NameAir
    /\ \E nm \in DOMAIN returned :
          /\ nm # NameAir
          /\ \E id \in returned[nm] : id > call.ret

\* C10 (as stated): whatever the number of names interned, no two names
\* hold the same id.
C10_Injective ==
    Cardinality({p[2] : p \in HashMapOf(prior, mapping)})
        = Cardinality(HashMapOf(prior, mapping))

\* C11 (as stated): the k-th distinct name gets id k-1 and its call returns
\* normally, for every k up to 65536; the increment of the counter that
\* follows makes no call fail and no id be handed out twice.
C11_Sequential ==
    LET m == HashMapOf(prior, mapping)
        k == Cardinality(m)
    IN  /\ k <= U16 => gm_pc # "panicked"
        /\ (call.kind = "new" /\ k <= U16) => call.ret = k - 1
        /\ call.kind = "new" =>
              \A p \in m : p[2] = call.ret => p[1] = call.name

----------------------------------------------------------------------------
(* Claims about the application, under SpecApp                             *)

\* C12: the first name interned by a fresh GlobalMapping holds id 0, and
\* every invocation of resumed finds id 0 for "air": the assert_eq never
\* fails, also when block_to_grid has interned other names in between.
C12_AirIsZero ==
    /\ app_pc # "panicked: assert_eq"
    /\ air_call.kind # "none" =>
          /\ air_call.ret = 0
          /\ entries_of(HashMap(prior, mapping), NameAir) = {<<NameAir, 0>>}
    /\ (prior = 0 /\ mapping # NoEntries) => <<NameAir, 0>> \in mapping

\* resumed was invoked again after block_to_grid had interned two other
\* names in a session that started fresh: "air" was found, with id 0
C12_Witness ==
    /\ prior = 0
    /\ app_pc = "running"
    /\ air_call.kind = "hit" /\ air_call.ret = 0
    /\ Cardinality(mapping) >= 3
    /\ grid # <<>>

\* C13 (as stated): over all Blocks translated with one GlobalMapping, two
\* voxels got the same global id if and only if their names are equal.
C13_SameIdIffSameName ==
    \A p \in translated : \A q \in translated :
        (p[2] = q[2]) <=> (p[1] = q[1])

\* C23: whenever the block fetched by resumed decodes successfully,
\* block_to_grid does not stop at the unwrap of get_name_by_id, whether or
\* not the mapping table lists every id the voxels hold.
C23_NameAlwaysPresent ==
    (result # NoResult /\ result.kind = "Ok") =>
        app_pc # "panicked: get_name_by_id unwrap"

\* What the record handed to resumed stores for voxel i (0-based), read
\* off its description.
StoredId(i) == PaletteId(desc.palette, i)
StoredParam1(i) == NodeByte(desc.seed, 2 * VOLUME + i)
StoredParam2(i) == NodeByte(desc.seed, 3 * VOLUME + i)
Voxel == 0..(VOLUME - 1)
GridWritten == app_pc = "running" /\ grid # <<>> /\ result.kind = "Ok"

\* C24: in a grid written by block_to_grid, the high half of the word at
\* index i is the global id of the name of voxel i, and the words determine
\* the triples <<global id, param1, param2>>: there are as many distinct
\* words as distinct triples.
C24_TripleRecoverable ==
    GridWritten =>
        /\ \A i \in Voxel :
              <<LastName(desc.entries, StoredId(i)), grid[i + 1].hi>>
                 \in translated
        /\ Cardinality({grid[i + 1] : i \in Voxel})
              = Cardinality({<<grid[i + 1].hi, StoredParam1(i),
                               StoredParam2(i)>> : i \in Voxel})

----------------------------------------------------------------------------
(* Claims about Map::get_block and the backends, under SpecMap             *)

InGetBlockData(t) == threads[t].pc = "fetching"
FetchReturned(t) == threads[t].pc \in {"fetched", "unlocked", "returned"}
Returned(t) == threads[t].pc = "returned"

\* Block::parse_data of every stored row
ParsedRows == [p \in DOMAIN Rows |-> parse_data(Rows[p]).result]

\* C14: whatever the threads calling get_block on one Map, at most one of
\* them is inside the backend's get_block_data, and it holds the guard.
C14_OneFetch ==
    /\ Cardinality({t \in Threads : InGetBlockData(t)}) <= 1
    /\ \A t \in Threads : InGetBlockData(t) => guard = t

\* two calls are under way: one is inside get_block_data, the other waits
\* in lock()
C14_Witness ==
    \E t \in Threads, u \in Threads :
        /\ InGetBlockData(t)
        /\ threads[u].pc = "lock"

\* C15: a get_block call fetches exactly once; a failed fetch is returned
\* as it is, the decoder not invoked; after a successful fetch the call
\* returns what Block::parse_data makes of the fetched bytes.
C15_FetchOnceThenDecode ==
    \A t \in Threads :
        /\ threads[t].fetches <= 1 /\ threads[t].decodes <= 1
        /\ ~Returned(t) => threads[t].decodes = 0
        /\ Returned(t) =>
              /\ threads[t].fetches = 1
              /\ threads[t].fetched.kind # "Ok" =>
                    /\ threads[t].result = threads[t].fetched
                    /\ threads[t].decodes = 0
              /\ threads[t].fetched.kind = "Ok" =>
                    /\ threads[t].fetched.data = Rows[threads[t].pos]
                    /\ threads[t].result = ParsedRows[threads[t].pos]
                    /\ threads[t].decodes = 1

\* one call has returned the backend's error, another a decoded Block
C15_Witness ==
    \E t \in Threads, u \in Threads :
        /\ Returned(t) /\ threads[t].fetched.kind \in {"Sqlite", "Postgres"}
        /\ Returned(u) /\ threads[u].result.kind = "Ok"

\* C15, decoder error: the fetch succeeded and the call returned the
\* decoder's UnsupportedVersion
C15_WitnessDecodeError ==
    \E t \in Threads :
        /\ Returned(t) /\ threads[t].fetched.kind = "Ok"
        /\ threads[t].result = ErrUnsupportedVersion(MIN_VERSION - 1)

\* C16 (as stated): a fetch at a position with no row returns
\* BlockNotFound under either backend; Sqlite and Postgres errors are
\* returned for driver failures only.
C16_NoRowIsBlockNotFound ==
    \A t \in Threads :
        FetchReturned(t) =>
           /\ (threads[t].pos \notin DOMAIN Rows /\ ~threads[t].driver_failed)
                 => threads[t].fetched = ErrBlockNotFound
           /\ threads[t].fetched.kind \in {"Sqlite", "Postgres"}
                 => threads[t].driver_failed

\* C20: the guard is held from lock() to the end of the fetch statement
\* and at no other time: not while a call decodes, not after it returned
\* (a Block or an error); a caller waiting in lock() finds the mutex free
\* whenever no call is in its fetch.
C20_GuardCoversFetchOnly ==
    /\ guard # NoThread => threads[guard].pc \in {"fetching", "fetched"}
    /\ \A t \in Threads :
          threads[t].pc \in {"fetching", "fetched"} => guard = t
    /\ (\A t \in Threads : threads[t].pc \notin {"fetching", "fetched"})
          => lock_free(guard)

\* a second caller is inside its fetch while the first, whose fetch
\* succeeded, has not decoded yet
C20_Witness ==
    \E t \in Threads, u \in Threads :
        /\ threads[t].pc = "unlocked" /\ threads[t].fetched.kind = "Ok"
        /\ InGetBlockData(u) /\ guard = u

\* C20, after a failure: one call has returned an error of the fetch and
\* another call holds the guard
C20_WitnessAfterFailure ==
    \E t \in Threads, u \in Threads :
        /\ Returned(t) /\ threads[t].fetched.kind # "Ok"
        /\ threads[t].result = threads[t].fetched
        /\ InGetBlockData(u) /\ guard = u

----------------------------------------------------------------------------
(* Claims about world.mt and the backend selection, under SpecMeta         *)

\* What the written lines say, read off their descriptions.
WrittenAt(key) ==
    {i \in 1..Len(written.lines) :
        written.lines[i].eq /\ written.lines[i].key = key}
WrittenKeys ==
    {written.lines[i].key :
        i \in {j \in 1..Len(written.lines) : written.lines[j].eq}}
WrittenValue(key) == written.lines[Max(WrittenAt(key))].value
WithoutEquals ==
    {i \in 1..Len(written.lines) :
        ~written.lines[i].blank /\ ~written.lines[i].eq}
Opened == meta # NoResult /\ meta.kind # "Io"
Started ==
    /\ startup # NotStarted
    /\ startup.arg /\ startup.readable
    /\ startup.sqlite_opens /\ startup.event_loop
    /\ WithoutEquals = {}
    /\ KeyBackend \in WrittenKeys

\* C17: when the program is started on a world whose metadata has the key
\* `backend` (and the file, the database and the event loop are
\* available), the value sqlite3 gives a running application with a Map
\* over SQLite, the value postgres a running application with a Map over
\* PostgreSQL, and every other value ends startup with exit(1) and no Map.
C17_BackendSelection ==
    Started =>
        IF WrittenValue(KeyBackend) = ValSqlite3
        THEN startup.out = Running("sqlite3")
        ELSE IF WrittenValue(KeyBackend) = ValPostgres
        THEN startup.out = Running("postgres")
        ELSE startup.out = Exited

\* C18: for a text whose non-blank lines all contain "=", open succeeds
\* with exactly the keys of those lines, each mapped to the trimmed value
\* of the last line with that key (split at the first "="), and get_str
\* returns that value, or None for a key that does not occur.
C18_LastValuePerKey ==
    (Opened /\ WithoutEquals = {}) =>
        /\ meta.kind = "Ok"
        /\ DOMAIN meta.values = WrittenKeys
        /\ \A key \in WrittenKeys : meta.values[key] = WrittenValue(key)
        /\ lookup # NoQuery =>
               lookup.out = IF lookup.key \in WrittenKeys
                            THEN Some(WrittenValue(lookup.key))
                            ELSE None

\* "backend = sqlite3", a whitespace-only line, then " backend\t=x=y \r":
\* get_str("backend") is "x=y"
C18_Witness ==
    /\ Opened
    /\ Len(written.lines) = 3
    /\ written.lines[1].key = KeyBackend
    /\ written.lines[1].value = ValSqlite3
    /\ written.lines[2].blank /\ written.lines[2].raw # <<>>
    /\ written.lines[3].key = KeyBackend
    /\ written.lines[3].raw # written.lines[3].body
    /\ lookup # NoQuery
    /\ lookup.key = KeyBackend
    /\ lookup.out = Some(<<120, 61, 121>>)

\* a key that never occurs is absent
C18_WitnessAbsent ==
    /\ Opened
    /\ WrittenKeys # {}
    /\ lookup # NoQuery
    /\ lookup.key \notin WrittenKeys
    /\ lookup.out = None

\* C19 as stated: if some non-blank line has no "=", open fails with
\* UnexpectedFormat carrying the text of the first such line exactly as it
\* stands in the file.
C19_ExactLine ==
    (Opened /\ WithoutEquals # {}) =>
        meta = ErrUnexpectedFormat(written.lines[Min(WithoutEquals)].raw)

\* C19: if some non-blank line has no "=", open fails with
\* UnexpectedFormat carrying the text of the first such line without its
\* surrounding whitespace; no WorldMeta is returned.
C19_TrimmedLine ==
    (Opened /\ WithoutEquals # {}) =>
        meta = ErrUnexpectedFormat(written.lines[Min(WithoutEquals)].body)

\* a well-formed line, then " x y\t", then "x": the payload is "x y"
C19_Witness ==
    /\ Opened
    /\ Len(written.lines) = 3
    /\ written.lines[1].eq
    /\ WithoutEquals = {2, 3}
    /\ written.lines[2].raw # written.lines[2].body
    /\ written.lines[3].body # written.lines[2].body
    /\ meta = ErrUnexpectedFormat(<<120, 32, 121>>)

====
